---- MODULE Spec2Model ----
(* TODO service of src/src/rest/rest/views.py: the four request handlers  *)
(* (TodoListView.get/post, TodoDetailView.put/delete) running             *)
(* concurrently against one MongoDB collection.  A handler is split at    *)
(* its store calls: each store call, with the local code that follows it  *)
(* up to the next store call or the response, is one atomic step.         *)
EXTENDS Integers, Sequences, FiniteSets, TLC

(* ---------------------------------------------------------------- bounds *)
NumReqs == 2        \* requests handled concurrently (worker slots)
MaxTodos == 2       \* ObjectIds the store hands out in one run
MaxRequests == 3    \* requests that arrive in one run
MaxRuns == 3        \* runs of equal characters in an input description

(* ------------------------------------------------------------- constants *)
MAX_DESCRIPTION_LENGTH == 500

VARIABLES
    store,      \* db['todos']: ObjectId -> document, DOMAIN = stored ids
    nextOid,    \* number of ObjectIds the store has assigned so far
    req,        \* per slot: the handler's position and local variables
    resp,       \* the Response returned by the last step (NoResp if none)
    deletes,    \* history: per id, the number of DELETEs that answered 200
    arrived     \* history: number of requests that have arrived

vars == <<store, nextOid, req, resp, deletes, arrived>>

Reqs == 1..NumReqs
Oids == 1..MaxTodos
\* datetime.utcnow() values: an earlier and a later instant.  The handlers only
\* compare created_at values (the sort of get), so two instants show every
\* order and every tie between two todos.
Times == {0, 1}

(* --------------------------------------------------------------- strings *)
(* A str is kept run-length encoded: a sequence of runs [ch, n] with      *)
(* adjacent runs of different characters, so that lengths around 500 are  *)
(* representable.                                                         *)
Lens == {1, MAX_DESCRIPTION_LENGTH, MAX_DESCRIPTION_LENGTH + 1}
Run == {[ch |-> " ", n |-> 1]} \cup [ch : {"a"}, n : Lens]
RunSeqs(k) == {s \in [1..k -> Run] : \A i \in 1..(k - 1) : s[i].ch # s[i + 1].ch}
Strings == UNION {RunSeqs(k) : k \in 0..MaxRuns}

IsSpace(c) == c = " "

RECURSIVE StrLen(_)
StrLen(s) == IF s = <<>> THEN 0 ELSE Head(s).n + StrLen(Tail(s))

RECURSIVE LStrip(_)
LStrip(s) ==
    IF s = <<>> THEN s
    ELSE IF IsSpace(Head(s).ch) THEN LStrip(Tail(s)) ELSE s

RECURSIVE RStrip(_)
RStrip(s) ==
    IF s = <<>> THEN s
    ELSE IF IsSpace(s[Len(s)].ch) THEN RStrip(SubSeq(s, 1, Len(s) - 1)) ELSE s

\* str.lstrip()
StripLeftOnly(s) == LStrip(s)

\* str.strip()
Strip(s) == RStrip(LStrip(s))

(* request.data['description'] as a JSON value: a str, or something else  *)
(* (number, null, list, ...), on which .strip() raises AttributeError.    *)
JsonStr(s) == [isStr |-> TRUE, s |-> s]
NotAString == [isStr |-> FALSE, s |-> <<>>]
Inputs == {JsonStr(s) : s \in Strings} \cup {NotAString}

(* ------------------------------------------------------------- ObjectIds *)
(* An id string of the URL: the 24-hex form of an ObjectId, in lower or   *)
(* upper case, or a string bson.ObjectId() rejects.                       *)
HexString(oid, upper) == [wellFormed |-> TRUE, hex |-> oid, upper |-> upper]
Malformed == [wellFormed |-> FALSE, hex |-> 0, upper |-> FALSE]
IdStrings == {HexString(o, u) : o \in Oids, u \in BOOLEAN} \cup {Malformed}
InvalidId == 0

\* a parse that raises nothing
ObjectIdAcceptAll(s) == IF s.wellFormed THEN s.hex ELSE 1

\* ObjectId(todo_id); InvalidId stands for the exception it raises
ObjectId(s) == IF s.wellFormed THEN s.hex ELSE InvalidId

\* str(ObjectId): always lower case
Str(oid) == HexString(oid, FALSE)

\* datetime.isoformat()
IsoFormat(t) == [iso |-> t]

(* -------------------------------------------------------------- messages *)
MsgRequired == "Description is required and cannot be empty."
MsgTooLong == "Description cannot exceed 500 characters."
MsgInvalidId == "Invalid todo ID format."
MsgNotFound == "Todo not found."
MsgDeleteFailed == "Failed to delete todo."
MsgConnection == "Database connection failed. Please try again later."
MsgOperation == "Database operation failed. Please try again."
\* the message of the handler's last except clause
MsgUnexpected(op) ==
    CASE op = "get" -> "An unexpected error occurred while retrieving todos."
      [] op = "post" -> "An unexpected error occurred while creating the todo."
      [] op = "put" -> "An unexpected error occurred while updating the todo."
      [] OTHER -> "An unexpected error occurred while deleting the todo."

(* ------------------------------------------------------------- documents *)
\* _format_todo: None for a missing document, else the JSON-safe copy
FormatTodo(oid, todo) ==
    [_id |-> Str(oid), description |-> todo.description,
     created_at |-> IsoFormat(todo.created_at), completed |-> todo.completed]

\* find_one({'_id': oid}) followed by _format_todo: <<>> stands for None
FindOneFormatted(st, oid) ==
    IF oid \in DOMAIN st THEN <<FormatTodo(oid, st[oid])>> ELSE <<>>

Idle ==
    [op |-> "none", pc |-> "idle", object_id |-> 0, description |-> <<>>,
     created_at |-> 0, calls |-> 0, wrote |-> FALSE, afterDel |-> FALSE]

NoResp ==
    [op |-> "none", status |-> 0, success |-> FALSE, error |-> "", message |-> "",
     data |-> <<>>, count |-> 0, req |-> Idle]

ErrorResponse(r, code, msg) ==
    [op |-> r.op, status |-> code, success |-> FALSE, error |-> msg, message |-> "",
     data |-> <<>>, count |-> 0, req |-> r]

OkResponse(r, code, msg, data) ==
    [op |-> r.op, status |-> code, success |-> TRUE, error |-> "", message |-> msg,
     data |-> data, count |-> Len(data), req |-> r]

\* the handler of slot r returns response x
Return(r, x) ==
    /\ resp' = x
    /\ req' = [req EXCEPT ![r] = Idle]

\* the handler of slot r goes on with locals q, no response yet
Goto(r, q) ==
    /\ resp' = NoResp
    /\ req' = [req EXCEPT ![r] = q]

Init ==
    /\ store = <<>>
    /\ nextOid = 0
    /\ req = [r \in Reqs |-> Idle]
    /\ resp = NoResp
    /\ deletes = [o \in Oids |-> 0]
    /\ arrived = 0

(* ------------------------------------------------------- store exceptions *)
(* Every step that makes a store call takes exc: "none" when the store    *)
(* answers, else the exception the call raises (the call then has no      *)
(* effect).  A step that returns before its store call takes "none".      *)
Exceptions == {"ConnectionFailure", "OperationFailure", "Exception"}

\* the except clauses of the four handlers (get has none for OperationFailure)
\* (of the request's history the answer keeps op, calls and wrote)
ExceptResponse(q, exc) ==
    LET h == [Idle EXCEPT !.op = q.op, !.calls = q.calls, !.wrote = q.wrote] IN
    IF exc = "ConnectionFailure" THEN ErrorResponse(h, 503, MsgConnection)
    ELSE IF exc = "OperationFailure" /\ q.op # "get"
      THEN ErrorResponse(h, 500, MsgOperation)
    ELSE ErrorResponse(h, 500, MsgUnexpected(q.op))

\* a request arrives and is picked up by the first free worker slot r
Arrive(r) ==
    /\ req[r].pc = "idle"
    /\ \A q \in Reqs : q < r => req[q].pc # "idle"
    /\ arrived < MaxRequests
    /\ arrived' = arrived + 1

(* ------------------------------------------------------ TodoListView.get *)
Orders(st) ==
    {s \in [1..Cardinality(DOMAIN st) -> DOMAIN st] :
        \A i, j \in DOMAIN s : i # j => s[i] # s[j]}

\* .sort('created_at', 1)
SortedAscending(st, s) ==
    \A i, j \in DOMAIN s : i < j => st[s[i]].created_at <= st[s[j]].created_at

\* .sort('created_at', -1): newest first, ties in any order
SortedDescending(st, s) ==
    \A i, j \in DOMAIN s : i < j => st[s[i]].created_at >= st[s[j]].created_at

\* lines 56-101: one store call, then the answer
Get(r, exc) ==
    LET me == [Idle EXCEPT !.op = "get", !.calls = 1] IN
    /\ Arrive(r)
    /\ IF exc # "none"
         THEN Return(r, ExceptResponse(me, exc))
         ELSE \E s \in Orders(store) :
                /\ SortedDescending(store, s)
                /\ Return(r, OkResponse(me, 200, "",
                          [i \in DOMAIN s |-> FormatTodo(s[i], store[s[i]])]))
    /\ UNCHANGED <<store, nextOid, deletes>>

(* ----------------------------------------------------- TodoListView.post *)
\* the checks without the length limit
DescriptionErrorNoLimit(description) ==
    IF description = <<>> THEN MsgRequired ELSE ""

\* the two description checks shared by post and put: "" when it passes
DescriptionError(description) ==
    IF description = <<>> THEN MsgRequired
    ELSE IF StrLen(description) > MAX_DESCRIPTION_LENGTH THEN MsgTooLong
    ELSE ""

\* insert_one(todo_doc): the store assigns the next ObjectId
InsertOne(st, oid, todo) ==
    [o \in DOMAIN st \cup {oid} |-> IF o = oid THEN todo ELSE st[o]]

\* lines 115-151: read, strip and validate the description, build todo_doc
\* with created_at = utcnow() = t, insert it
PostBegin(r, d, t, exc) ==
    LET me == [Idle EXCEPT !.op = "post"] IN
    /\ Arrive(r)
    /\ IF ~d.isStr
         THEN /\ exc = "none"
              /\ Return(r, ErrorResponse(me, 500, MsgUnexpected("post")))
              /\ UNCHANGED <<store, nextOid>>
       ELSE IF DescriptionError(Strip(d.s)) # ""
         THEN /\ exc = "none"
              /\ Return(r, ErrorResponse(me, 400, DescriptionError(Strip(d.s))))
              /\ UNCHANGED <<store, nextOid>>
       ELSE IF exc # "none"
         THEN /\ Return(r, ExceptResponse([me EXCEPT !.calls = 1], exc))
              /\ UNCHANGED <<store, nextOid>>
       ELSE /\ nextOid < MaxTodos
            /\ nextOid' = nextOid + 1
            /\ store' = InsertOne(store, nextOid + 1,
                                  [description |-> Strip(d.s), created_at |-> t,
                                   completed |-> FALSE])
            /\ Goto(r, [me EXCEPT !.pc = "reread", !.object_id = nextOid + 1,
                                  !.description = Strip(d.s),
                                  !.calls = 1, !.wrote = TRUE])
    /\ UNCHANGED deletes

\* lines 154-168: find_one by inserted_id, format, answer 201
PostReread(r, exc) ==
    LET q == [req[r] EXCEPT !.calls = @ + 1] IN
    /\ req[r].op = "post"
    /\ req[r].pc = "reread"
    /\ IF exc # "none"
         THEN Return(r, ExceptResponse(q, exc))
         ELSE Return(r, OkResponse(q, 201, "Todo created successfully",
                                   FindOneFormatted(store, req[r].object_id)))
    /\ UNCHANGED <<store, nextOid, deletes, arrived>>

(* ----------------------------------------------------- TodoDetailView.put *)
\* lines 231-278: parse the id, read, strip and validate the description,
\* then the existence check
PutBegin(r, s, d, exc) ==
    LET me == [Idle EXCEPT !.op = "put"]
        q == [me EXCEPT !.object_id = ObjectId(s), !.description = Strip(d.s),
                        !.calls = 1]
    IN
    /\ Arrive(r)
    /\ IF ObjectId(s) = InvalidId
         THEN exc = "none" /\ Return(r, ErrorResponse(me, 400, MsgInvalidId))
       ELSE IF ~d.isStr
         THEN exc = "none" /\ Return(r, ErrorResponse(me, 500, MsgUnexpected("put")))
       ELSE IF DescriptionError(Strip(d.s)) # ""
         THEN exc = "none"
              /\ Return(r, ErrorResponse(me, 400, DescriptionError(Strip(d.s))))
       ELSE IF exc # "none"
         THEN Return(r, ExceptResponse(q, exc))
       ELSE IF ObjectId(s) \notin DOMAIN store
         THEN Return(r, ErrorResponse(q, 404, MsgNotFound))
       ELSE Goto(r, [q EXCEPT !.pc = "update"])
    /\ UNCHANGED <<store, nextOid, deletes>>

\* a whole-document replacement instead of $set
UpdateOneReplacing(st, oid, description) ==
    IF oid \in DOMAIN st
      THEN [st EXCEPT ![oid] = [description |-> description, created_at |-> 0,
                                completed |-> FALSE]]
      ELSE st

\* update_one({'_id': oid}, {'$set': {'description': description}})
UpdateOne(st, oid, description) ==
    IF oid \in DOMAIN st
      THEN [st EXCEPT ![oid] = [@ EXCEPT !.description = description]]
      ELSE st

\* lines 281-284; update_result is never read
PutUpdate(r, exc) ==
    LET q == [req[r] EXCEPT !.calls = @ + 1] IN
    /\ req[r].pc = "update"
    /\ IF exc # "none"
         THEN /\ Return(r, ExceptResponse(q, exc))
              /\ UNCHANGED store
         ELSE /\ store' = UpdateOne(store, req[r].object_id, req[r].description)
              /\ Goto(r, [q EXCEPT !.pc = "reread", !.wrote = (store' # store)])
    /\ UNCHANGED <<nextOid, deletes, arrived>>

\* lines 287-299: find_one again, format, answer 200
PutReread(r, exc) ==
    LET q == [req[r] EXCEPT !.calls = @ + 1] IN
    /\ req[r].op = "put"
    /\ req[r].pc = "reread"
    /\ IF exc # "none"
         THEN Return(r, ExceptResponse(q, exc))
         ELSE Return(r, OkResponse(q, 200, "Todo updated successfully",
                                   FindOneFormatted(store, req[r].object_id)))
    /\ UNCHANGED <<store, nextOid, deletes, arrived>>

(* -------------------------------------------------- TodoDetailView.delete *)
\* lines 336-361: parse the id, then the existence check
DeleteBegin(r, s, exc) ==
    LET me == [Idle EXCEPT !.op = "delete"]
        q == [me EXCEPT !.object_id = ObjectId(s), !.calls = 1,
                        !.afterDel = (deletes[ObjectId(s)] > 0)]
    IN
    /\ Arrive(r)
    /\ IF ObjectId(s) = InvalidId
         THEN exc = "none" /\ Return(r, ErrorResponse(me, 400, MsgInvalidId))
       ELSE IF exc # "none"
         THEN Return(r, ExceptResponse(q, exc))
       ELSE IF ObjectId(s) \notin DOMAIN store
         THEN Return(r, ErrorResponse(q, 404, MsgNotFound))
       ELSE Goto(r, [q EXCEPT !.pc = "delete"])
    /\ UNCHANGED <<store, nextOid, deletes>>

\* delete_result.deleted_count of delete_one({'_id': oid})
DeletedCount(st, oid) == IF oid \in DOMAIN st THEN 1 ELSE 0

\* a delete_one that removes nothing
DeleteOneRemovingNothing(st, oid) == st

\* the collection after delete_one({'_id': oid})
DeleteOneFrom(st, oid) == [o \in DOMAIN st \ {oid} |-> st[o]]

\* an answer that does not look at deleted_count
DeleteResponseUnchecked(q, deleted_count) ==
    OkResponse(q, 200, "Todo deleted successfully", <<>>)

\* lines 366-383: the answer for a given deleted_count
DeleteResponse(q, deleted_count) ==
    IF deleted_count = 0
      THEN ErrorResponse(q, 500, MsgDeleteFailed)
      ELSE OkResponse(q, 200, "Todo deleted successfully", <<>>)

\* lines 364-383
DeleteOne(r, exc) ==
    LET oid == req[r].object_id
        q == [req[r] EXCEPT !.calls = @ + 1]
    IN  /\ req[r].pc = "delete"
        /\ IF exc # "none"
             THEN /\ Return(r, ExceptResponse(q, exc))
                  /\ UNCHANGED store
             ELSE /\ store' = DeleteOneFrom(store, oid)
                  /\ Return(r, DeleteResponse([q EXCEPT !.wrote = (store' # store)],
                                              DeletedCount(store, oid)))
        /\ deletes' = IF resp'.status = 200 THEN [deletes EXCEPT ![oid] = @ + 1]
                                             ELSE deletes
        /\ UNCHANGED <<nextOid, arrived>>

(* ------------------------------------------------------------ next state *)
(* The handlers read a description d only through d.isStr and, for a     *)
(* str, the outcome of the checks on Strip(d.s); they read an id string   *)
(* s only through ObjectId(s).  Inputs that agree on these take the same  *)
(* step, so Step draws one input from each such class: the transitions    *)
(* are those of drawing from all of Inputs and IdStrings (InputClasses,   *)
(* below, is that statement).                                             *)
DescriptionClass(d) ==
    IF ~d.isStr THEN <<"not a str", <<>>>>
    ELSE IF DescriptionError(Strip(d.s)) # ""
      THEN <<DescriptionError(Strip(d.s)), <<>>>>
    ELSE <<"", Strip(d.s)>>
DescriptionCases ==
    {CHOOSE e \in Inputs : DescriptionClass(e) = DescriptionClass(d) : d \in Inputs}
IdCases ==
    {CHOOSE e \in IdStrings : ObjectId(e) = ObjectId(s) : s \in IdStrings}
\* the inputs the handlers cannot tell from the drawn one
DescriptionsLike ==
    [c \in DescriptionCases |->
        {d \in Inputs : DescriptionClass(d) = DescriptionClass(c)}]
IdsLike ==
    [c \in IdCases |-> {s \in IdStrings : ObjectId(s) = ObjectId(c)}]

\* one step of some handler, its inputs drawn from descs and ids
StepOn(exc, descs, ids) ==
    \/ \E r \in Reqs : Get(r, exc)
    \/ \E r \in Reqs, d \in descs, t \in Times : PostBegin(r, d, t, exc)
    \/ \E r \in Reqs : PostReread(r, exc)
    \/ \E r \in Reqs, s \in ids, d \in descs : PutBegin(r, s, d, exc)
    \/ \E r \in Reqs : PutUpdate(r, exc)
    \/ \E r \in Reqs : PutReread(r, exc)
    \/ \E r \in Reqs, s \in ids : DeleteBegin(r, s, exc)
    \/ \E r \in Reqs : DeleteOne(r, exc)

Step(exc) == StepOn(exc, DescriptionCases, IdCases)

Next == Step("none")

\* the store answers every call
Spec == Init /\ [][Next]_vars

NextFault ==
    \/ Next
    \/ \E exc \in Exceptions : Step(exc)

\* store calls may raise
SpecFault == Init /\ [][NextFault]_vars

\* the same with the inputs drawn from all of Inputs and IdStrings: TLC
\* finds SpecFault to hold as a property of SpecAll (every step on any input
\* is a step of SpecFault), and InputClasses as a property of SpecFault
NextAll == \E exc \in {"none"} \cup Exceptions : StepOn(exc, Inputs, IdStrings)
SpecAll == Init /\ [][NextAll]_vars

(* ============================================================ properties *)
(* Statement-side vocabulary, written without the handlers' operators.    *)
AnyExc == {"none"} \cup Exceptions

\* the part of s from its first to its last non-blank character
TrimOf(s) ==
    LET keep == {i \in 1..Len(s) : s[i].ch # " "} IN
    IF keep = {} THEN <<>>
    ELSE SubSeq(s, CHOOSE i \in keep : \A j \in keep : i <= j,
                   CHOOSE i \in keep : \A j \in keep : i >= j)

\* 1 <= len(trim(d)) <= 500
Acceptable(s) == StrLen(TrimOf(s)) >= 1 /\ StrLen(TrimOf(s)) <= 500

\* the worker slot that takes the arriving request in this step, if any
Arriving(r) ==
    /\ arrived' = arrived + 1
    /\ req[r].pc = "idle"
    /\ \A q \in Reqs : q < r => req[q].pc # "idle"

\* the arriving request is of kind op
ArrivingOp(r, op) == Arriving(r) /\ (resp'.op = op \/ req'[r].op = op)

\* Drawing a request's inputs from their classes loses no step: a first
\* step on any input is the first step on the input drawn for its class.
InputClasses ==
    [][\A r \in Reqs :
         Arriving(r) =>
           \A exc \in AnyExc :
             /\ \A d \in Inputs, t \in Times :
                  PostBegin(r, d, t, exc)
                    <=> \E c \in DescriptionCases :
                          d \in DescriptionsLike[c] /\ PostBegin(r, c, t, exc)
             /\ \A s \in IdStrings, d \in Inputs :
                  PutBegin(r, s, d, exc)
                    <=> \E s0 \in IdCases, c \in DescriptionCases :
                          /\ s \in IdsLike[s0]
                          /\ d \in DescriptionsLike[c]
                          /\ PutBegin(r, s0, c, exc)
             /\ \A s \in IdStrings :
                  DeleteBegin(r, s, exc)
                    <=> \E s0 \in IdCases :
                          s \in IdsLike[s0] /\ DeleteBegin(r, s0, exc)]_vars

\* C1: every stored todo's description is trimmed, non-empty and at most
\* 500 characters long, in every reachable state.
C1_StoredDescriptions ==
    \A o \in DOMAIN store :
        LET d == store[o].description IN
        /\ d # <<>>
        /\ d[1].ch # " "
        /\ d[Len(d)].ch # " "
        /\ StrLen(d) >= 1
        /\ StrLen(d) <= 500

\* an update has just stored a description of exactly 500 characters
C1_Witness ==
    /\ resp.op = "put"
    /\ resp.status = 200
    /\ resp.req.wrote
    /\ resp.req.object_id \in DOMAIN store
    /\ StrLen(store[resp.req.object_id].description) = 500

\* C3: update and delete with an id string that does not parse answer 400
\* without a store call, whatever the description, and leave the collection
\* as it was.
C3_MalformedId ==
    [][\A r \in Reqs :
         (ArrivingOp(r, "put") \/ ArrivingOp(r, "delete")) =>
           \A s0 \in IdCases :
             (\E s \in IdsLike[s0] : ~s.wellFormed) =>
               \A exc \in AnyExc :
                 (DeleteBegin(r, s0, exc)
                  \/ \E c \in DescriptionCases : PutBegin(r, s0, c, exc))
                 => /\ resp'.status = 400
                    /\ ~resp'.success
                    /\ resp'.req.calls = 0
                    /\ store' = store
                    /\ nextOid' = nextOid]_vars

\* an update with a malformed id has just been answered 400
C3_Witness ==
    /\ resp.op = "put"
    /\ resp.status = 400
    /\ resp.error = MsgInvalidId
    /\ resp.req.calls = 0

\* C4: once a delete of an id has answered 200 the todo is absent, and a
\* delete of that id that starts afterwards answers 404 and removes nothing.
C4_DeleteThenNotFound ==
    /\ \A o \in Oids : deletes[o] > 0 => o \notin DOMAIN store
    /\ \A r \in Reqs : ~(req[r].op = "delete" /\ req[r].afterDel)
    /\ (resp.op = "delete" /\ resp.req.afterDel)
         => (resp.status = 404 /\ ~resp.success /\ ~resp.req.wrote)

\* a second delete of a deleted id has just been answered 404
C4_Witness ==
    /\ resp.op = "delete"
    /\ resp.req.afterDel
    /\ resp.status = 404
    /\ deletes[resp.req.object_id] = 1

\* C9: for each todo at most one delete answers 200; a delete that passed
\* the existence check and then removed nothing answers 500.
C9_ConcurrentDeletes ==
    /\ \A o \in Oids : deletes[o] <= 1
    /\ (resp.op = "delete" /\ resp.req.calls = 2 /\ ~resp.req.wrote)
         => (resp.status = 500 /\ ~resp.success)
    /\ (resp.op = "delete" /\ resp.status = 200) => resp.req.wrote

\* of two racing deletes one answered 200 and the other has just answered 500
C9_Witness ==
    /\ resp.op = "delete"
    /\ resp.status = 500
    /\ resp.error = MsgDeleteFailed
    /\ deletes[resp.req.object_id] = 1

\* C2 as stated: an update of a well-formed id with no stored todo answers
\* 404 for every description string, the empty, blank and over-long included.
C2_NotFoundForAnyDescription ==
    [][\A r \in Reqs :
         ArrivingOp(r, "put") =>
           \A s0 \in IdCases, c \in DescriptionCases :
             PutBegin(r, s0, c, "none")
             => \A s \in IdsLike[s0], d \in DescriptionsLike[c] :
                  (s.wellFormed /\ s.hex \notin DOMAIN store /\ d.isStr)
                  => resp'.status = 404]_vars

\* C2 amended: an update of a well-formed id with no stored todo answers 404
\* when the trimmed description has 1 to 500 characters and 400 otherwise;
\* the collection stays as it was.
C2_NotFoundAfterValidation ==
    [][\A r \in Reqs :
         ArrivingOp(r, "put") =>
           \A s0 \in IdCases, c \in DescriptionCases :
             PutBegin(r, s0, c, "none")
             => \A s \in IdsLike[s0], d \in DescriptionsLike[c] :
                  (s.wellFormed /\ s.hex \notin DOMAIN store /\ d.isStr)
                  => /\ resp'.status = IF Acceptable(d.s) THEN 404 ELSE 400
                     /\ ~resp'.success
                     /\ store' = store]_vars

\* an update of an id with no stored todo has just been answered 404
C2_Witness ==
    /\ resp.op = "put"
    /\ resp.status = 404
    /\ resp.error = MsgNotFound
    /\ resp.req.object_id \notin DOMAIN store

\* C5: create(d) answers 201 exactly when 1 <= len(trim(d)) <= 500 and 400
\* with nothing inserted otherwise; a 201 carries the created todo, with
\* description trim(d), completed false and the id the store assigned.
C5_Create ==
    /\ [][\A r \in Reqs :
            ArrivingOp(r, "post") =>
              \A c \in DescriptionCases, t \in Times :
                PostBegin(r, c, t, "none")
                => \A d \in DescriptionsLike[c] :
                   d.isStr =>
                   IF Acceptable(d.s)
                     THEN /\ req'[r].pc = "reread"
                          /\ req'[r].description = TrimOf(d.s)
                          /\ DOMAIN store' = DOMAIN store \cup {req'[r].object_id}
                          /\ req'[r].object_id \notin DOMAIN store
                     ELSE /\ resp'.status = 400
                          /\ store' = store]_vars
    /\ [](\A r \in Reqs : (req[r].op = "post" /\ req[r].pc = "reread") => req[r].wrote)
    /\ []((resp.op = "post" /\ resp.req.wrote)
            => /\ resp.status = 201
               /\ Len(resp.data) = 1
               /\ resp.data[1]._id = Str(resp.req.object_id)
               /\ resp.data[1].description = resp.req.description
               /\ resp.data[1].completed = FALSE)

\* C6: list() answers with every stored todo exactly once, newest first,
\* count equal to the number of items, and changes nothing; a created todo
\* that was not deleted is among them exactly once.
C6_List ==
    /\ \A o \in 1..nextOid : o \in DOMAIN store \/ deletes[o] > 0
    /\ (resp.op = "get" /\ resp.status = 200)
         => /\ resp.count = Len(resp.data)
            /\ resp.count = Cardinality(DOMAIN store)
            /\ \A o \in DOMAIN store :
                 Cardinality({i \in DOMAIN resp.data :
                                resp.data[i] = FormatTodo(o, store[o])}) = 1
            /\ \A o \in 1..nextOid :
                 deletes[o] = 0 =>
                   Cardinality({i \in DOMAIN resp.data :
                                  resp.data[i]._id = Str(o)}) = 1
            /\ \A i, j \in DOMAIN resp.data :
                 i < j => resp.data[i].created_at.iso >= resp.data[j].created_at.iso
            /\ ~resp.req.wrote

\* a list of two todos created at different instants has just been returned
C6_Witness ==
    /\ resp.op = "get"
    /\ resp.status = 200
    /\ resp.count = 2
    /\ resp.data[1].created_at # resp.data[2].created_at

\* C7: no step changes the id, created_at or completed of a stored todo; a
\* step of an update changes nothing but the description of its own todo.
C7_UpdateFrame ==
    [][/\ \A o \in DOMAIN store \cap DOMAIN store' :
            /\ store'[o].created_at = store[o].created_at
            /\ store'[o].completed = store[o].completed
       /\ \A r \in Reqs :
            (req[r].op = "put" /\ req'[r] # req[r])
            => /\ DOMAIN store' = DOMAIN store
               /\ \A o \in DOMAIN store : o # req[r].object_id => store'[o] = store[o]
       /\ \A r \in Reqs :
            (Arriving(r) /\ (resp'.op = "put" \/ req'[r].op = "put"))
            => store' = store]_vars

\* an update has just answered 200 after changing its todo's description
C7_Witness ==
    /\ resp.op = "put"
    /\ resp.status = 200
    /\ resp.req.wrote
    /\ Len(resp.data) = 1
    /\ resp.data[1].description = resp.req.description

\* C8: in every interleaving an update that answers 200 carries its todo,
\* with _id the request's id and description the trimmed request description.
C8_UpdateAnswer ==
    (resp.op = "put" /\ resp.status = 200)
      => /\ Len(resp.data) = 1
         /\ resp.data[1]._id = Str(resp.req.object_id)
         /\ resp.data[1].description = resp.req.description

\* C10: when create, update or delete answers with an error envelope, the
\* request has not inserted, changed or removed a todo.
C10_ErrorsChangeNothing ==
    (resp.op \in {"post", "put", "delete"} /\ ~resp.success) => ~resp.req.wrote
====
